---- MODULE Spec2Model ----
(***************************************************************************)
(* LabPipeline: the tokenized chunker (src/vectorstore/chunker.py), the   *)
(* vector document builder (src/vectorstore/vector_doc_builder.py), and,   *)
(* each under a specification of its own (PdfSpec, PageSpec), process_pdfs *)
(* (src/processing/pdf_processor.py) and analyze_page_content              *)
(* (src/processing/content_analysis.py).                                   *)
(*                                                                         *)
(* One behaviour is one call of create_vector_documents_from_metadata with *)
(* chunk_fn = lambda txt: chunk_text(txt, **CHUNK_PARAMS), the way         *)
(* scripts/test_vector_output.py composes the two.  The arguments of the   *)
(* call are chosen in Init; the actions are the statements of the two      *)
(* functions in program order.  ChunkSpec is chunk_text called alone.      *)
(***************************************************************************)
EXTENDS Integers, Sequences, FiniteSets, TLC

\* ------------------------------------------------------------------ bounds

\* Longest raw_text, in characters.
MaxLen == 4

\* Largest max_tokens / overlap_tokens tried; the smallest tried is -1.
MaxCfg == 3

\* Most PDF files that RAW_PDF_DIR.glob("*.pdf") finds.
MaxFiles == 3

\* Most pages of the PDF that analyze_page_content opens.
MaxPages == 3

\* Most images on one page.
MaxImages == 2

\* A run whose stride is positive makes at most Len(tokens) <= MaxLen loop
\* iterations, so this cap cuts only the runs that never leave the loop.
IterCap == MaxLen + 1

\* ------------------------------------------------------------------ inputs

Chars == {"a", " "}

Texts == UNION {[1..n -> Chars] : n \in 0..MaxLen}

CfgRange == -1..MaxCfg

KnownTokenizerModels == {"gpt-3.5-turbo"}

ModelNames == {"gpt-3.5-turbo", "no-such-model"}

KnownEmbeddingModels == {"all-MiniLM-L6-v2"}

EmbeddingModelNames == {"all-MiniLM-L6-v2", "no-such-embedder"}

MetaKeys == {"doc_id", "title", "source", "page_num"}

\* The value the caller supplies for a key it does supply.
SuppliedValue(key) ==
    CASE key = "doc_id" -> "2019_Whissel"
      [] key = "title" -> "Selective Activation"
      [] key = "source" -> "internal_report"
      [] OTHER -> "7"

Metadatas == {[k \in K |-> SuppliedValue(k)] : K \in SUBSET MetaKeys}

\* ------------------------------------------------------- pure functions

Min(a, b) == IF a < b THEN a ELSE b

Max(a, b) == IF a > b THEN a ELSE b

\* The byte string of each token id: 1 is "a", 2 is " ", 3 is " a" (a
\* word with its leading space, as byte-pair encodings merge it).
TokenBytes == << <<"a">>, <<" ">>, <<" ", "a">> >>

RECURSIVE EncodeFrom(_, _)
EncodeFrom(text, i) ==
    IF i > Len(text) THEN <<>>
    ELSE IF text[i] = " " /\ i < Len(text) /\ text[i + 1] = "a"
         THEN <<3>> \o EncodeFrom(text, i + 2)
         ELSE <<(IF text[i] = "a" THEN 1 ELSE 2)>> \o EncodeFrom(text, i + 1)

\* A tokenizer that puts a begin-of-text token before every encoding.
EncodeWithBos(text) == <<2>> \o EncodeFrom(text, 1)

\* tokenizer.encode(text)
Encode(text) == EncodeFrom(text, 1)

RECURSIVE Decode(_)
\* tokenizer.decode(chunk_tokens)
Decode(toks) ==
    IF toks = <<>> THEN <<>>
    ELSE TokenBytes[Head(toks)] \o Decode(Tail(toks))

\* A Python slice bound clamped into 0..n: a negative bound counts from the end.
SliceBound(b, n) == IF b < 0 THEN Max(b + n, 0) ELSE Min(b, n)

\* A slice that begins one token late.
PySliceFromNext(s, lo, hi) ==
    LET l == SliceBound(lo, Len(s))
        h == SliceBound(hi, Len(s))
    IN  IF l + 1 < h THEN SubSeq(s, l + 2, h) ELSE <<>>

\* s[lo:hi] of Python, on the 0-based offsets lo and hi.
PySlice(s, lo, hi) ==
    LET l == SliceBound(lo, Len(s))
        h == SliceBound(hi, Len(s))
    IN  IF l < h THEN SubSeq(s, l + 1, h) ELSE <<>>

\* end = min(start + max_tokens, total_tokens)
WindowEnd(st, maxT, total) == Min(st + maxT, total)

\* A stride with its operands the wrong way round.
StrideReversed(maxT, overlapT) == overlapT - maxT

\* A window that slides by its whole width, forgetting the overlap.
StrideNoOverlap(maxT, overlapT) == maxT

\* start += max_tokens - overlap_tokens
Stride(maxT, overlapT) == maxT - overlapT

\* The window [st, end) and the next start leave tokens that no window holds:
\* those from the end of this window up to the next start.
SkipsTokens(st, end, next, total) ==
    next > st /\ Max(end, st) < Min(next, total)

\* len(chunk.split()): the words of a string, split at white space.
WordCount(s) ==
    Cardinality({i \in 1..Len(s) : s[i] # " " /\ (i = 1 \/ s[i - 1] = " ")})

\* A lookup that never finds the key.
MetaGetDefaultOnly(m, key, default) == default

\* metadata.get(key, default)
MetaGet(m, key, default) == IF key \in DOMAIN m THEN m[key] ELSE default

\* zip(chunks, embeddings) stops at the shorter of the two.
ZipLen(cs, es) == Min(Len(cs), Len(es))

\* An embedder that is handed the chunks one call at a time gets one chunk.
EncodeArgumentOneChunk(cs) == IF cs = <<>> THEN cs ELSE <<Head(cs)>>

\* The argument of model.encode(chunks, convert_to_numpy=True): the whole list.
EncodeArgument(cs) == cs

\* The numbers of vectors model.encode may hand back for n inputs: one too
\* few, as many, one too many.
EmbedCounts(n) == {k \in 0..(n + 1) : k >= n - 1}

\* ------------------------------------------------------------------ state

VARIABLES
    metadata,              \* argument: the document metadata dict
    raw_text,              \* argument: the document text
    model_name,            \* CHUNK_PARAMS["model_name"]
    max_tokens,            \* CHUNK_PARAMS["max_tokens"]
    overlap_tokens,        \* CHUNK_PARAMS["overlap_tokens"]
    embedding_model_name,  \* argument: the embedding model
    pc,                    \* the statement the call is at
    model_loaded,          \* SentenceTransformer(...) has returned
    chunk_fn_called,       \* chunk_fn(raw_text) has been entered
    encode_calls,          \* how many times model.encode was invoked
    encoded,               \* the list the last model.encode call was given
    tokens,                \* chunk_text: tokens
    start,                 \* chunk_text: start
    chunks,                \* chunk_text: chunks, then the builder's chunks
    windows,               \* the chunk_tokens slice of every iteration so far
    skipped,               \* some window began past the end of the one before
    embeddings,            \* the builder's embeddings
    vector_docs,           \* the builder's vector_docs
    returned,              \* the call has returned a list
    result,                \* the list it returned
    err,                   \* the exception that ended the call, or "none"
    \* process_pdfs (src/processing/pdf_processor.py)
    ppc,                   \* the statement process_pdfs is at
    pdf_count,             \* len(pdf_files)
    file_idx,              \* the 1-based place of pdf_file in pdf_files
    text,                  \* text, the result of extract_pdf_text
    processed_count,       \* processed_count
    error_count,           \* error_count
    text_files,            \* the files whose .txt this run has written
    meta_files,            \* the files whose .json this run has written
    file_status,           \* how the loop body ended for each file so far
    \* analyze_page_content (src/processing/content_analysis.py)
    apc,                   \* the statement analyze_page_content is at
    num_pages,             \* len(pdf.pages) of the opened file
    content_analysis,      \* content_analysis
    analysis_failed        \* the except clause has run

buildvars == <<metadata, raw_text, model_name, max_tokens, overlap_tokens,
               embedding_model_name, pc, model_loaded, chunk_fn_called,
               encode_calls, encoded, tokens, start, chunks, windows, skipped,
               embeddings, vector_docs, returned, result, err>>

pdfvars == <<ppc, pdf_count, file_idx, text, processed_count, error_count,
             text_files, meta_files, file_status>>

pagevars == <<apc, num_pages, content_analysis, analysis_failed>>

\* What a call of the builder or of chunk_text leaves alone.
others == <<pdfvars, pagevars>>

vars == <<buildvars, pdfvars, pagevars>>

args == <<metadata, raw_text, model_name, max_tokens, overlap_tokens,
          embedding_model_name>>

chunker == <<tokens, start, chunks, windows, skipped>>

\* process_pdfs is not running.
PdfIdle ==
    /\ ppc = "idle"
    /\ pdf_count = 0
    /\ file_idx = 0
    /\ text = "None"
    /\ processed_count = 0
    /\ error_count = 0
    /\ text_files = {}
    /\ meta_files = {}
    /\ file_status = <<>>

\* analyze_page_content is not running.
PageIdle ==
    /\ apc = "idle"
    /\ num_pages = 0
    /\ content_analysis = [total_pages |-> 0, text_pages |-> 0,
                           image_pages |-> 0, mixed_pages |-> 0,
                           page_details |-> <<>>]
    /\ analysis_failed = FALSE

Init ==
    /\ PdfIdle
    /\ PageIdle
    /\ encoded = <<>>
    /\ metadata \in Metadatas
    /\ raw_text \in Texts
    /\ model_name \in ModelNames
    /\ max_tokens \in CfgRange
    /\ overlap_tokens \in CfgRange
    /\ embedding_model_name \in EmbeddingModelNames
    /\ pc = "load"
    /\ model_loaded = FALSE
    /\ chunk_fn_called = FALSE
    /\ encode_calls = 0
    /\ tokens = <<>>
    /\ start = 0
    /\ chunks = <<>>
    /\ windows = <<>>
    /\ skipped = FALSE
    /\ embeddings = <<>>
    /\ vector_docs = <<>>
    /\ returned = FALSE
    /\ result = <<>>
    /\ err = "none"

\* ---------------------------------------------------------------- actions

\* model = SentenceTransformer(embedding_model_name)
LoadEmbeddingModel ==
    /\ pc = "load"
    /\ embedding_model_name \in KnownEmbeddingModels
    /\ model_loaded' = TRUE
    /\ pc' = "chunk"
    /\ UNCHANGED <<args, chunk_fn_called, encode_calls, encoded, chunker,
                   embeddings, vector_docs, returned, result, err, others>>

\* SentenceTransformer raises for a name it cannot resolve.
LoadEmbeddingModelFails ==
    /\ pc = "load"
    /\ embedding_model_name \notin KnownEmbeddingModels
    /\ err' = "OSError"
    /\ pc' = "done"
    /\ UNCHANGED <<args, model_loaded, chunk_fn_called, encode_calls, encoded,
                   chunker, embeddings, vector_docs, returned, result,
                   others>>

\* chunks = chunk_fn(raw_text): chunk_text up to the head of its loop.
EnterChunkText ==
    /\ pc = "chunk"
    /\ model_name \in KnownTokenizerModels
    /\ chunk_fn_called' = TRUE
    /\ tokens' = Encode(raw_text)
    /\ start' = 0
    /\ chunks' = <<>>
    /\ pc' = "loop"
    /\ UNCHANGED <<args, model_loaded, encode_calls, encoded, windows,
                   skipped, embeddings, vector_docs, returned, result, err,
                   others>>

\* tiktoken.encoding_for_model raises KeyError for a model it does not know.
TokenizerLookupFails ==
    /\ pc = "chunk"
    /\ model_name \notin KnownTokenizerModels
    /\ chunk_fn_called' = TRUE
    /\ err' = "KeyError"
    /\ pc' = "done"
    /\ UNCHANGED <<args, model_loaded, encode_calls, encoded, chunker,
                   embeddings, vector_docs, returned, result, others>>

\* One iteration of: while start < total_tokens.
SlideWindow ==
    /\ pc = "loop"
    /\ start < Len(tokens)
    /\ Len(chunks) < IterCap
    /\ LET end == WindowEnd(start, max_tokens, Len(tokens))
           chunk_tokens == PySlice(tokens, start, end)
       IN  /\ chunks' = Append(chunks, Decode(chunk_tokens))
           /\ windows' = Append(windows, chunk_tokens)
           /\ start' = start + Stride(max_tokens, overlap_tokens)
           /\ skipped' =
                (skipped \/ SkipsTokens(start, end, start', Len(tokens)))
    /\ UNCHANGED <<args, pc, model_loaded, chunk_fn_called, encode_calls,
                   encoded, tokens, embeddings, vector_docs, returned, result,
                   err, others>>

\* The loop condition fails: return chunks, back in the builder.
ReturnChunks ==
    /\ pc = "loop"
    /\ ~(start < Len(tokens))
    /\ pc' = "embed"
    /\ UNCHANGED <<args, model_loaded, chunk_fn_called, encode_calls, encoded,
                   chunker, embeddings, vector_docs, returned, result, err,
                   others>>

\* embeddings = model.encode(chunks, convert_to_numpy=True)
EncodeChunks ==
    /\ pc = "embed"
    /\ \E n \in EmbedCounts(Len(chunks)) : embeddings' = [j \in 1..n |-> j]
    /\ encode_calls' = encode_calls + 1
    /\ encoded' = EncodeArgument(chunks)
    /\ pc' = "assemble"
    /\ UNCHANGED <<args, model_loaded, chunk_fn_called, chunker, vector_docs,
                   returned, result, err, others>>

\* The record the loop body builds for the i-th (1-based) pair of the zip.
\* id stands for uuid.uuid4(): the order of minting; the timestamp, which no
\* other statement reads, is left out.
VectorDoc(i) ==
    [id |-> i,
     text |-> chunks[i],
     embedding |-> embeddings[i],
     metadata |->
        [doc_id |-> MetaGet(metadata, "doc_id", "unknown"),
         title |-> MetaGet(metadata, "title", "Untitled"),
         source |-> MetaGet(metadata, "source", "unknown"),
         page_num |-> MetaGet(metadata, "page_num", "None"),
         chunk_index |-> i - 1,
         token_count |-> WordCount(chunks[i]),
         embedding_model |-> embedding_model_name]]

\* One iteration of: for i, (chunk, embedding) in enumerate(zip(...)).
AssembleDoc ==
    /\ pc = "assemble"
    /\ Len(vector_docs) < ZipLen(chunks, embeddings)
    /\ vector_docs' = Append(vector_docs, VectorDoc(Len(vector_docs) + 1))
    /\ UNCHANGED <<args, pc, model_loaded, chunk_fn_called, encode_calls,
                   encoded, chunker, embeddings, returned, result, err,
                   others>>

\* return vector_docs
ReturnVectorDocs ==
    /\ pc = "assemble"
    /\ ~(Len(vector_docs) < ZipLen(chunks, embeddings))
    /\ returned' = TRUE
    /\ result' = vector_docs
    /\ pc' = "done"
    /\ UNCHANGED <<args, model_loaded, chunk_fn_called, encode_calls, encoded,
                   chunker, embeddings, vector_docs, err, others>>

Next ==
    \/ LoadEmbeddingModel
    \/ LoadEmbeddingModelFails
    \/ EnterChunkText
    \/ TokenizerLookupFails
    \/ SlideWindow
    \/ ReturnChunks
    \/ EncodeChunks
    \/ AssembleDoc
    \/ ReturnVectorDocs

Spec == Init /\ [][Next]_vars

\* chunk_text called on its own: the call begins at its first statement, and
\* pc = "embed" is the caller holding the returned list.
ChunkInit ==
    /\ PdfIdle
    /\ PageIdle
    /\ encoded = <<>>
    /\ metadata = <<>>
    /\ raw_text \in Texts
    /\ model_name \in ModelNames
    /\ max_tokens \in CfgRange
    /\ overlap_tokens \in CfgRange
    /\ embedding_model_name = "all-MiniLM-L6-v2"
    /\ pc = "chunk"
    /\ model_loaded = FALSE
    /\ chunk_fn_called = FALSE
    /\ encode_calls = 0
    /\ tokens = <<>>
    /\ start = 0
    /\ chunks = <<>>
    /\ windows = <<>>
    /\ skipped = FALSE
    /\ embeddings = <<>>
    /\ vector_docs = <<>>
    /\ returned = FALSE
    /\ result = <<>>
    /\ err = "none"

ChunkNext ==
    \/ EnterChunkText
    \/ TokenizerLookupFails
    \/ SlideWindow
    \/ ReturnChunks

\* A call that is running runs its next statement: the function is
\* synchronous and single-threaded.
ChunkSpec == ChunkInit /\ [][ChunkNext]_vars /\ WF_vars(ChunkNext)

\* ------------------------------------------------------------ process_pdfs

\* What extract_pdf_text returns when it does not return None: "" for a PDF
\* without pages, else the pages' text joined.
ExtractedTexts == {"", "page text"}

\* The call of the builder is not running.
BuildIdle ==
    /\ metadata = <<>>
    /\ raw_text = <<>>
    /\ model_name = "gpt-3.5-turbo"
    /\ max_tokens = 512
    /\ overlap_tokens = 100
    /\ embedding_model_name = "all-MiniLM-L6-v2"
    /\ pc = "idle"
    /\ model_loaded = FALSE
    /\ chunk_fn_called = FALSE
    /\ encode_calls = 0
    /\ encoded = <<>>
    /\ tokens = <<>>
    /\ start = 0
    /\ chunks = <<>>
    /\ windows = <<>>
    /\ skipped = FALSE
    /\ embeddings = <<>>
    /\ vector_docs = <<>>
    /\ returned = FALSE
    /\ result = <<>>
    /\ err = "none"

\* process_pdfs after pdf_files = list(RAW_PDF_DIR.glob("*.pdf")).
PdfInit ==
    /\ BuildIdle
    /\ PageIdle
    /\ pdf_count \in 0..MaxFiles
    /\ ppc = "glob"
    /\ file_idx = 0
    /\ text = "None"
    /\ processed_count = 0
    /\ error_count = 0
    /\ text_files = {}
    /\ meta_files = {}
    /\ file_status = [f \in 1..pdf_count |-> "pending"]

\* The statement after the body of the for loop ended for file i of n: the
\* body for the next file, or the summary after the loop.
AfterFile(i, n) == IF i < n THEN "extract" ELSE "summary"

\* if not pdf_files: return
NoPdfFiles ==
    /\ ppc = "glob"
    /\ pdf_count = 0
    /\ ppc' = "returned"
    /\ UNCHANGED <<pdf_count, file_idx, text, processed_count, error_count,
                   text_files, meta_files, file_status, buildvars, pagevars>>

\* for pdf_file in pdf_files: the first file.
FirstFile ==
    /\ ppc = "glob"
    /\ pdf_count > 0
    /\ file_idx' = 1
    /\ ppc' = "extract"
    /\ UNCHANGED <<pdf_count, text, processed_count, error_count, text_files,
                   meta_files, file_status, buildvars, pagevars>>

\* text = extract_pdf_text(pdf_file), which returned a string.
ExtractText ==
    /\ ppc = "extract"
    /\ \E t \in ExtractedTexts : text' = t
    /\ ppc' = "save_text"
    /\ UNCHANGED <<pdf_count, file_idx, processed_count, error_count,
                   text_files, meta_files, file_status, buildvars, pagevars>>

\* extract_pdf_text caught an exception and returned None: count, continue.
ExtractTextFails ==
    /\ ppc = "extract"
    /\ text' = "None"
    /\ error_count' = error_count + 1
    /\ file_status' = [file_status EXCEPT ![file_idx] = "no_text"]
    /\ file_idx' = file_idx + 1
    /\ ppc' = AfterFile(file_idx, pdf_count)
    /\ UNCHANGED <<pdf_count, processed_count, text_files, meta_files,
                   buildvars, pagevars>>

\* The text file is written.
SaveText ==
    /\ ppc = "save_text"
    /\ text_files' = text_files \cup {file_idx}
    /\ ppc' = "save_meta"
    /\ UNCHANGED <<pdf_count, file_idx, text, processed_count, error_count,
                   meta_files, file_status, buildvars, pagevars>>

\* A text write that fails and goes on to the metadata all the same.
SaveTextFailsNoContinue ==
    /\ ppc = "save_text"
    /\ error_count' = error_count + 1
    /\ file_status' = [file_status EXCEPT ![file_idx] = "text_write_failed"]
    /\ ppc' = "save_meta"
    /\ UNCHANGED <<pdf_count, file_idx, text, processed_count, text_files,
                   meta_files, buildvars, pagevars>>

\* Writing the text file raised IOError: count, continue.
SaveTextFails ==
    /\ ppc = "save_text"
    /\ error_count' = error_count + 1
    /\ file_status' = [file_status EXCEPT ![file_idx] = "text_write_failed"]
    /\ file_idx' = file_idx + 1
    /\ ppc' = AfterFile(file_idx, pdf_count)
    /\ UNCHANGED <<pdf_count, text, processed_count, text_files, meta_files,
                   buildvars, pagevars>>

\* The metadata is extracted and its JSON file written; processed_count += 1.
SaveMetadata ==
    /\ ppc = "save_meta"
    /\ meta_files' = meta_files \cup {file_idx}
    /\ processed_count' = processed_count + 1
    /\ file_status' = [file_status EXCEPT ![file_idx] = "processed"]
    /\ file_idx' = file_idx + 1
    /\ ppc' = AfterFile(file_idx, pdf_count)
    /\ UNCHANGED <<pdf_count, text, error_count, text_files, buildvars,
                   pagevars>>

\* Writing the JSON file raised IOError: error_count += 1 in the except
\* clause, then the statement after the try, processed_count += 1.
SaveMetadataFails ==
    /\ ppc = "save_meta"
    /\ error_count' = error_count + 1
    /\ processed_count' = processed_count + 1
    /\ file_status' = [file_status EXCEPT ![file_idx] = "meta_write_failed"]
    /\ file_idx' = file_idx + 1
    /\ ppc' = AfterFile(file_idx, pdf_count)
    /\ UNCHANGED <<pdf_count, text, text_files, meta_files, buildvars,
                   pagevars>>

\* The summary is logged and process_pdfs returns.
LogSummary ==
    /\ ppc = "summary"
    /\ ppc' = "returned"
    /\ UNCHANGED <<pdf_count, file_idx, text, processed_count, error_count,
                   text_files, meta_files, file_status, buildvars, pagevars>>

PdfNext ==
    \/ NoPdfFiles
    \/ FirstFile
    \/ ExtractText
    \/ ExtractTextFails
    \/ SaveText
    \/ SaveTextFails
    \/ SaveMetadata
    \/ SaveMetadataFails
    \/ LogSummary

PdfSpec == PdfInit /\ [][PdfNext]_vars

\* ---------------------------------------------------- analyze_page_content

\* page.extract_text() or "": nothing (None or ""), white space only, a word.
PageTexts == {<<>>, <<" ">>, <<" ", "a">>}

\* text.strip() is not empty
HasText(t) == \E i \in 1..Len(t) : t[i] # " "

\* Three separate ifs in place of the if / elif / elif chain.
CountersSeparateIfs(has_text, has_images) ==
    (IF has_text /\ has_images THEN {"mixed_pages"} ELSE {})
        \cup (IF has_text THEN {"text_pages"} ELSE {})
        \cup (IF has_images THEN {"image_pages"} ELSE {})

\* The counters that the if / elif / elif chain increments for a page.
Counters(has_text, has_images) ==
    IF has_text /\ has_images THEN {"mixed_pages"}
    ELSE IF has_text THEN {"text_pages"}
    ELSE IF has_images THEN {"image_pages"}
    ELSE {}

\* page_info of the page at 0-based place i with text t and n images.
PageInfo(i, t, n) ==
    [page_number |-> i + 1,
     has_text |-> HasText(t),
     has_images |-> n > 0,
     text_length |-> IF HasText(t) THEN Len(t) ELSE 0,
     image_count |-> n]

\* content_analysis after the loop body has run for page_info.
WithPage(ca, page_info) ==
    LET c == Counters(page_info.has_text, page_info.has_images)
        inc(name) == IF name \in c THEN 1 ELSE 0
    IN  [total_pages |-> ca.total_pages,
         text_pages |-> ca.text_pages + inc("text_pages"),
         image_pages |-> ca.image_pages + inc("image_pages"),
         mixed_pages |-> ca.mixed_pages + inc("mixed_pages"),
         page_details |-> Append(ca.page_details, page_info)]

\* analyze_page_content(pdf_path) on a file of num_pages pages.
PageInit ==
    /\ BuildIdle
    /\ PdfIdle
    /\ apc = "open"
    /\ num_pages \in 0..MaxPages
    /\ content_analysis = [total_pages |-> 0, text_pages |-> 0,
                           image_pages |-> 0, mixed_pages |-> 0,
                           page_details |-> <<>>]
    /\ analysis_failed = FALSE

\* with pdfplumber.open(pdf_path) as pdf: total_pages = len(pdf.pages)
OpenPdf ==
    /\ apc = "open"
    /\ content_analysis' = [content_analysis EXCEPT !.total_pages = num_pages]
    /\ apc' = "pages"
    /\ UNCHANGED <<num_pages, analysis_failed, buildvars, pdfvars>>

\* pdfplumber.open raises: the except clause logs, the function returns.
OpenPdfFails ==
    /\ apc = "open"
    /\ analysis_failed' = TRUE
    /\ apc' = "returned"
    /\ UNCHANGED <<num_pages, content_analysis, buildvars, pdfvars>>

\* One iteration of: for i, page in enumerate(pdf.pages).
AnalyzePage ==
    /\ apc = "pages"
    /\ Len(content_analysis.page_details) < num_pages
    /\ \E t \in PageTexts, n \in 0..MaxImages :
          content_analysis' =
              WithPage(content_analysis,
                       PageInfo(Len(content_analysis.page_details), t, n))
    /\ UNCHANGED <<apc, num_pages, analysis_failed, buildvars, pdfvars>>

\* page.extract_text() or page.images raises: the except clause logs, the
\* function returns what it has.
AnalyzePageFails ==
    /\ apc = "pages"
    /\ Len(content_analysis.page_details) < num_pages
    /\ analysis_failed' = TRUE
    /\ apc' = "returned"
    /\ UNCHANGED <<num_pages, content_analysis, buildvars, pdfvars>>

\* The loop is over: return content_analysis.
ReturnAnalysis ==
    /\ apc = "pages"
    /\ Len(content_analysis.page_details) = num_pages
    /\ apc' = "returned"
    /\ UNCHANGED <<num_pages, content_analysis, analysis_failed, buildvars,
                   pdfvars>>

PageNext ==
    \/ OpenPdf
    \/ OpenPdfFails
    \/ AnalyzePage
    \/ AnalyzePageFails
    \/ ReturnAnalysis

PageSpec == PageInit /\ [][PageNext]_vars

\* ------------------------------------------------- notions the claims use

T == Len(tokens)

M == max_tokens

O == overlap_tokens

\* chunk_text has returned its list to the builder.
ChunkTextReturned ==
    chunk_fn_called /\ pc \in {"embed", "assemble", "done"} /\ err # "KeyError"

\* chunk_text was entered with a tokenizer it could resolve.
ChunkTextRan == chunk_fn_called /\ model_name \in KnownTokenizerModels

\* 0 <= overlap_tokens < max_tokens
ValidConfig == 0 <= O /\ O < M

\* ceil(a / b) for b > 0
CeilDiv(a, b) == (a + b - 1) \div b

\* w without its leading (up to) n tokens
DropLeading(w, n) == SubSeq(w, Min(n, Len(w)) + 1, Len(w))

RECURSIVE ConcatDropped(_, _)
\* The windows ws in order, each without its leading (up to) n tokens.
ConcatDropped(ws, n) ==
    IF ws = <<>> THEN <<>>
    ELSE DropLeading(Head(ws), n) \o ConcatDropped(Tail(ws), n)

\* The first window in full, then every later one with its overlap removed.
Reconstructed ==
    IF windows = <<>> THEN <<>>
    ELSE Head(windows) \o ConcatDropped(Tail(windows), O)

\* ------------------------------------------------------------------ claims

\* C1: for 0 <= O < M and T > M, chunk_text returns exactly
\* ceil((T - O) / (M - O)) chunks.
C1_ChunkCountFormula ==
    (ChunkTextReturned /\ ValidConfig /\ T > M)
        => Len(chunks) = CeilDiv(T - O, M - O)

\* C2: for 0 <= O < M and 0 < T <= M, chunk_text returns exactly one chunk,
\* the decoding of the whole token sequence.
C2_ShortTextOneChunk ==
    (ChunkTextReturned /\ ValidConfig /\ 0 < T /\ T <= M)
        => chunks = <<Decode(tokens)>>

\* C3: with overlap_tokens >= max_tokens, chunk_text fails fast with
\* InvalidChunkConfigError and never takes a window of the loop.
C3_OverlapTooLargeFailsFast ==
    (ChunkTextRan /\ O >= M)
        => (err = "InvalidChunkConfigError" /\ pc = "done" /\ windows = <<>>)

\* C4: when the embedder returned a number of vectors other than the number
\* of chunks, the build raises EmbeddingCountMismatchError and returns no
\* vector documents.
C4_MismatchRaises ==
    (pc = "done" /\ encode_calls > 0 /\ Len(embeddings) # Len(chunks))
        => (err = "EmbeddingCountMismatchError" /\ ~returned)

\* C5: a returned sequence has one record per chunk, the i-th with
\* chunk_index i (0-based) and the text of the i-th chunk.
C5_OneRecordPerChunk ==
    returned =>
        /\ Len(result) = Len(chunks)
        /\ \A i \in 1..Len(result) :
              /\ result[i].metadata.chunk_index = i - 1
              /\ result[i].text = chunks[i]

\* C6: empty text yields zero chunks, and a build whose chunk function
\* returned zero chunks ends without an error, returning an empty sequence.
C6_EmptyTextNoDocs ==
    /\ (ChunkTextReturned /\ raw_text = <<>>) => chunks = <<>>
    /\ (ChunkTextReturned /\ chunks = <<>>)
          => /\ err = "none"
             /\ vector_docs = <<>>
             /\ (pc = "done" => returned /\ result = <<>>)

\* C6 witness: a build of the empty text has returned the empty sequence,
\* after the embedder was called on the empty chunk list.
C6_Witness ==
    /\ pc = "done" /\ returned /\ result = <<>>
    /\ raw_text = <<>> /\ chunks = <<>> /\ encode_calls = 1

\* C7: the chunk function is invoked, and a configuration error surfaces,
\* before the embedding model is loaded or invoked.
C7_ChunkBeforeEmbeddingBackend ==
    /\ model_loaded => chunk_fn_called
    /\ (O >= M) => (~model_loaded /\ encode_calls = 0)

\* C8: for 0 <= O < M, the first chunk's tokens followed by every later
\* chunk's tokens without their leading (up to) O tokens are the original
\* token sequence; every chunk is the decoding of its window.
C8_RoundTrip ==
    (ChunkTextReturned /\ ValidConfig)
        => /\ Reconstructed = tokens
           /\ Len(chunks) = Len(windows)
           /\ \A k \in 1..Len(chunks) : chunks[k] = Decode(windows[k])

\* C8 witness: three or more overlapping windows, the last one no longer
\* than the overlap, reconstruct the token sequence.
C8_Witness ==
    /\ ChunkTextReturned /\ ValidConfig /\ O >= 1
    /\ Len(windows) >= 3
    /\ Len(windows[Len(windows)]) <= O
    /\ Reconstructed = tokens

\* C9: with max_tokens <= 0 or overlap_tokens < 0, chunk_text fails with
\* InvalidChunkConfigError before any processing: no window is taken and no
\* token is skipped between windows.
C9_BadConfigFailsFast ==
    (ChunkTextRan /\ (M <= 0 \/ O < 0))
        => /\ err = "InvalidChunkConfigError" /\ pc = "done"
           /\ windows = <<>> /\ ~skipped

\* C10: every record carries the caller's doc_id, title and source where the
\* metadata has the key, and "unknown", "Untitled", "unknown" where not.
C10_MetadataDefaults ==
    \A i \in 1..Len(vector_docs) :
        LET md == vector_docs[i].metadata
        IN  /\ md.doc_id = (IF "doc_id" \in DOMAIN metadata
                            THEN metadata["doc_id"] ELSE "unknown")
            /\ md.title = (IF "title" \in DOMAIN metadata
                           THEN metadata["title"] ELSE "Untitled")
            /\ md.source = (IF "source" \in DOMAIN metadata
                            THEN metadata["source"] ELSE "unknown")

\* C10 witness: a build with a metadata mapping that has only doc_id has
\* returned two or more records: the supplied doc_id, the default title.
C10_Witness ==
    /\ returned /\ Len(result) >= 2
    /\ DOMAIN metadata = {"doc_id"}
    /\ \A i \in 1..Len(result) :
          /\ result[i].metadata.doc_id = "2019_Whissel"
          /\ result[i].metadata.title = "Untitled"

\* C11: a build that has ended either returned the full ordered sequence, one
\* record for every chunk, or raised an error and returned nothing.
C11_AllOrNothing ==
    pc = "done" =>
        \/ returned /\ err = "none" /\ Len(result) = Len(chunks)
        \/ ~returned /\ err # "none" /\ result = <<>>

\* C12: for 0 <= O < M, the k-th (0-based) chunk is the decoding of
\* tokens[k(M-O) : min(k(M-O)+M, T)]: it is not empty, has at most M tokens,
\* and has fewer than M only where the window ends at the last token.
C12_WindowShape ==
    (ChunkTextRan /\ ValidConfig) =>
        /\ Len(chunks) = Len(windows)
        /\ \A k \in 1..Len(windows) :
              LET lo == (k - 1) * (M - O)
                  hi == Min(lo + M, T)
              IN  /\ windows[k] = SubSeq(tokens, lo + 1, hi)
                  /\ chunks[k] = Decode(windows[k])
                  /\ Len(windows[k]) >= 1
                  /\ Len(windows[k]) <= M
                  /\ Len(windows[k]) < M => hi = T

\* C12 witness: chunk_text has returned three or more windows, the first of
\* max_tokens >= 2 tokens, the last shorter.
C12_Witness ==
    /\ ChunkTextReturned /\ ValidConfig /\ M >= 2
    /\ Len(windows) >= 3
    /\ Len(windows[1]) = M
    /\ Len(windows[Len(windows)]) < M

\* C13: for 0 <= O < M the loop of chunk_text ends; every iteration moves
\* start forward; the loop is left only with start >= total_tokens and makes
\* no iteration once start >= total_tokens.
C13_LoopTerminates ==
    /\ [][(ValidConfig /\ windows' # windows) => start' > start]_vars
    /\ [][(pc = "loop" /\ pc' # "loop") => start >= Len(tokens)]_vars
    /\ [][(pc = "loop" /\ start >= Len(tokens)) => windows' = windows]_vars
    /\ (pc = "loop" /\ ValidConfig) ~> (pc = "embed")

\* C13 witness: chunk_text has left its loop after two or more iterations,
\* with start at or past the end of the tokens.
C13_Witness ==
    /\ pc = "embed" /\ ValidConfig
    /\ Len(windows) >= 2
    /\ start >= Len(tokens)

\* C14: model.encode is invoked at most once in a build, and a build that is
\* past the embedding step invoked it exactly once, on the whole chunk list.
C14_EncodeOnceBatched ==
    /\ encode_calls <= 1
    /\ pc \in {"load", "chunk", "loop", "embed"} => encode_calls = 0
    /\ (pc = "assemble" \/ returned) => (encode_calls = 1 /\ encoded = chunks)

\* C14 witness: a build of three or more chunks has returned after one
\* call of model.encode, on all of them.
C14_Witness ==
    /\ returned /\ Len(chunks) >= 3
    /\ encode_calls = 1 /\ encoded = chunks

\* C15: a metadata file is written only for a file whose text was extracted
\* and whose text file is written; a file whose extraction returned None or
\* whose text write failed has none; and after the loop no file is left
\* unvisited, whatever failed before it.
C15_MetadataAfterText ==
    /\ meta_files \subseteq text_files
    /\ ppc = "save_meta" => (file_idx \in text_files /\ text # "None")
    /\ \A f \in 1..pdf_count :
          file_status[f] \in {"no_text", "text_write_failed"}
              => f \notin meta_files
    /\ ppc \in {"summary", "returned"}
          => \A f \in 1..pdf_count : file_status[f] # "pending"

\* C15 witness: the run is over; the first file's extraction failed, the
\* second file's text write failed, the third has text and metadata.
C15_Witness ==
    /\ ppc = "returned" /\ pdf_count >= 3
    /\ file_status[1] = "no_text"
    /\ file_status[2] = "text_write_failed"
    /\ 3 \in text_files /\ 3 \in meta_files
    /\ meta_files = {3}

\* C16: when process_pdfs finishes, processed_count + error_count is the
\* number of PDF files found.
C16_EveryFileCountedOnce ==
    ppc \in {"summary", "returned"}
        => processed_count + error_count = pdf_count

\* The pages analysed so far that have text / images as given.
PagesWith(has_text, has_images) ==
    {i \in 1..Len(content_analysis.page_details) :
        /\ content_analysis.page_details[i].has_text = has_text
        /\ content_analysis.page_details[i].has_images = has_images}

\* C17: every analysed page is counted in mixed_pages iff it has text and
\* images, in text_pages iff only text, in image_pages iff only images, and
\* in none otherwise, so the three counters sum to at most total_pages; a run
\* without an error returns total_pages entries numbered 1..total_pages.
C17_PageCounts ==
    LET ca == content_analysis
    IN  /\ ca.mixed_pages = Cardinality(PagesWith(TRUE, TRUE))
        /\ ca.text_pages = Cardinality(PagesWith(TRUE, FALSE))
        /\ ca.image_pages = Cardinality(PagesWith(FALSE, TRUE))
        /\ ca.text_pages + ca.image_pages + ca.mixed_pages <= ca.total_pages
        /\ (apc = "returned" /\ ~analysis_failed)
              => /\ Len(ca.page_details) = ca.total_pages
                 /\ \A i \in 1..Len(ca.page_details) :
                       ca.page_details[i].page_number = i

\* C17 witness: a run without an error has returned three pages: one mixed,
\* one with text only, one with neither text nor images.
C17_Witness ==
    /\ apc = "returned" /\ ~analysis_failed
    /\ content_analysis.total_pages = 3
    /\ Len(content_analysis.page_details) = 3
    /\ content_analysis.mixed_pages = 1
    /\ content_analysis.text_pages = 1
    /\ content_analysis.image_pages = 0

====
